---- MODULE Spec2Model ----
(***************************************************************************)
(* routerd: an HTTP composition router.  RouterDMain compiles every        *)
(* configured graph of services and dependencies into a TRouterDGraph and  *)
(* hands it to a TRouterDProxyHandler; the handler drives one              *)
(* TRouterDRequest through the graph: every service is requested once all  *)
(* services it depends on have replied, and the client is answered when    *)
(* nothing is left.                                                        *)
(*                                                                         *)
(* Service names and host group names are the numbers 1..MaxServices; the  *)
(* name MaxServices + 1 is never declared by any configuration.            *)
(***************************************************************************)
EXTENDS Integers, FiniteSets, Sequences, TLC

\* ---------------------------------------------------------------- bounds
MaxServices == 3    \* names a configuration can declare
MaxDeps == 3        \* entries of a graph's "deps" list
MaxSpurious == 1    \* callbacks a misbehaving downstream adds to the due ones
MaxHosts == 3       \* entries of a host group
MaxPickers == 2     \* threads that can be in GetHost at once
MaxPicks == 6       \* calls of GetHost followed
MaxSlots == 2       \* requests in flight on one handler at once
MaxRequests == 3    \* requests Handle is called for

Names == 1..MaxServices
UnknownName == MaxServices + 1
Kinds == {"ok", "error"}

VARIABLES
    config,         \* the configuration document RouterDMain reads
    phase,          \* "startup", "serving" (server running), "exit1" or
                    \* "threw" (an exception left RouterDMain)
    diag,           \* the diagnostic written to stderr, "" while there is none
    Graph,          \* TRouterDProxyHandler::Graph, the compiled graph
    started,        \* Handle has been called for the request
    reqGraph,       \* TRouterDRequest::Graph, the request's own copy
    InProgress,     \* TRouterDRequest::InProgress
    parts,          \* the parts added to the request's response, in order
    done,           \* the one-shot completion latch of the request
    response,       \* what each call of the client responder was given
    dispatched,     \* per name, the downstream requests issued for it
    body,           \* per name, the body of the downstream request sent to it
    outstanding,    \* downstream requests whose terminal callback is still due
    callbacks,      \* callbacks that arrived and wait for the request's lock
    spurious,       \* callbacks produced beyond the due ones
    raced,          \* the callbacks of the last two services in progress
                    \* have waited for the lock at the same time
    pc,             \* the statement RouterDMain is at, "off" when not traced
    tree,           \* RouterDMain's local tree
    reverseTree,    \* RouterDMain's local reverseTree
    compiledGraph,  \* RouterDMain's local compiledGraph
    noDeps,         \* what is left of the vector noDeps of the current round
    rounds,         \* iterations of while (!tree.empty()) entered
    graphs,         \* the keys of RouterDMain's local map graphs
    hostSpec,       \* the list of "host:port" strings of the one host group
    Hosts,          \* the vector RouterDMain builds from it
    cursor,         \* the round-robin cursor of the host group
    picker,         \* per thread in GetHost, where it is and what it fetched
    picks,          \* per fetched cursor value, the index GetHost returned
    lock,           \* the holder of the request's mutex, 0 when free
    cb,             \* per service, where its reply callback is
    local,          \* per callback, the request state it read
    requests,       \* per request slot, the state of the request in it
    handled         \* the requests Handle has been called for

vars == <<config, phase, diag, Graph, started, reqGraph, InProgress, parts,
          done, response, dispatched, body, outstanding, callbacks, spurious,
          raced, pc, tree, reverseTree, compiledGraph, noDeps, rounds, graphs,
          hostSpec, Hosts, cursor, picker, picks, lock, cb, local, requests,
          handled>>

\* ------------------------------------------------------- helper operators
Erase(f, k) == [x \in DOMAIN f \ {k} |-> f[x]]

Min(S) == CHOOSE x \in S : \A y \in S : x <= y

Range(s) == {s[i] : i \in 1..Len(s)}

EmptyTree == [x \in {} |-> {}]

\* A default-constructed TRouterDGraph.
EmptyGraph == [Services |-> EmptyTree, Tree |-> EmptyTree, ReverseTree |-> EmptyTree]

\* --------------------------------------------------- RouterDMain: compile
\* ServicesLoop without the test of hosts.count(service.HostsFrom).
RECURSIVE ServicesLoop_NoHostsCheck(_, _, _, _)
ServicesLoop_NoHostsCheck(services, hosts, i, seen) ==
    IF i > Len(services) THEN [at |-> 0, why |-> ""]
    ELSE IF services[i].Name \in seen
         THEN [at |-> i, why |-> "service already present"]
    ELSE ServicesLoop_NoHostsCheck(services, hosts, i + 1,
                                   seen \cup {services[i].Name})

\* The loop over data["services"]: the index of the first entry that is
\* refused, with the reason, or 0 when every entry is accepted.
RECURSIVE ServicesLoop(_, _, _, _)
ServicesLoop(services, hosts, i, seen) ==
    IF i > Len(services) THEN [at |-> 0, why |-> ""]
    ELSE IF services[i].HostsFrom \notin hosts
         THEN [at |-> i, why |-> "unknown hosts group"]
    ELSE IF services[i].Name \in seen
         THEN [at |-> i, why |-> "service already present"]
    ELSE ServicesLoop(services, hosts, i + 1, seen \cup {services[i].Name})

ServiceNames(services) == {services[i].Name : i \in 1..Len(services)}

\* tree.emplace(service.Name, {}) for every service.
InitialTree(services) == [s \in ServiceNames(services) |-> {}]

\* compiledGraph.Services.emplace(service.Name, service) for every service.
ServiceMap(services) ==
    [s \in ServiceNames(services) |->
        services[CHOOSE i \in 1..Len(services) : services[i].Name = s]]

\* DepError without the two tests of compiledGraph.Services.count().
DepError_NoUnknownCheck(dep, declared) ==
    IF dep[1] = dep[2] THEN "depends on itself" ELSE ""

\* The checks made on one entry of "deps".
DepError(dep, declared) ==
    IF dep[1] = dep[2] THEN "depends on itself"
    ELSE IF dep[1] \notin declared \/ dep[2] \notin declared
         THEN "unknown service in dependency"
    ELSE ""

\* The insert into tree[a] is left out: no service gets a dependency.
TreeInsert_NoEdges(t, deps) == t

\* tree[a].insert(b) for every entry {a, b} of deps; operator[] makes the key
\* a when the tree does not have it.
TreeInsert(t, deps) ==
    [a \in DOMAIN t \cup {d[1] : d \in deps} |->
        (IF a \in DOMAIN t THEN t[a] ELSE {})
            \cup {d[2] : d \in {e \in deps : e[1] = a}}]

\* reverseTree[b].insert(a) for every entry {a, b} of deps; a key exists only
\* for a service something depends on.
ReverseTreeInsert(deps) ==
    [b \in {d[2] : d \in deps} |-> {d[1] : d \in {e \in deps : e[2] = b}}]

\* NoDeps without the test of it.second.empty(): every service is pushed.
NoDeps_All(t) == DOMAIN t

\* The services the for loop over tree pushes to noDeps.
NoDeps(t) == {k \in DOMAIN t : t[k] = {}}

\* tree.at(it2) throws for some it2 of reverseTree.at(it1).
LookupMisses(t, rt, it1) ==
    it1 \in DOMAIN rt /\ \E it2 \in rt[it1] : it2 \notin DOMAIN t

\* EraseFromTree leaving it1 in the sets of the services that depend on it.
EraseFromTree_KeepEdges(t, rt, it1) == Erase(t, it1)

\* tree.at(it2).erase(it1) for every it2 of reverseTree.at(it1), when
\* reverseTree has it1; then tree.erase(it1).
EraseFromTree(t, rt, it1) ==
    LET dependents == IF it1 \in DOMAIN rt THEN rt[it1] ELSE {}
    IN  Erase([x \in DOMAIN t |-> IF x \in dependents THEN t[x] \ {it1} ELSE t[x]],
              it1)

\* One pass of the inner loop over noDeps, in iteration order: it1 is dropped
\* as a dependency of everything that depends on it, then erased.  tree.at()
\* throws when its key is absent.
RECURSIVE EraseNoDeps(_, _, _)
EraseNoDeps(t, rt, nd) ==
    IF nd = {} THEN [tree |-> t, reverseTree |-> rt, threw |-> FALSE]
    ELSE LET it1 == Min(nd) IN
         IF LookupMisses(t, rt, it1)
         THEN [tree |-> t, reverseTree |-> rt, threw |-> TRUE]
         ELSE EraseNoDeps(EraseFromTree(t, rt, it1), Erase(rt, it1), nd \ {it1})

\* while (!tree.empty()): "ok" when the working tree drains, "cycle" when a
\* round finds no service without dependencies, "throw" when at() throws.
RECURSIVE CycleCheck(_, _)
CycleCheck(t, rt) ==
    IF DOMAIN t = {} THEN "ok"
    ELSE IF NoDeps(t) = {} THEN "cycle"
         ELSE LET r == EraseNoDeps(t, rt, NoDeps(t)) IN
              IF r.threw THEN "throw" ELSE CycleCheck(r.tree, r.reverseTree)

\* The body of the loop over config["graphs"] for one graph: the outcome and
\* the graph handed to the handler.
Compile(cfg) ==
    LET sl == ServicesLoop(cfg.services, cfg.hosts, 1, {})
        accepted == IF sl.at = 0 THEN cfg.services
                    ELSE SubSeq(cfg.services, 1, sl.at - 1)
        declared == ServiceNames(accepted)
        Services == ServiceMap(accepted)
        tree0 == InitialTree(accepted)
        bad == {d \in cfg.deps : DepError(d, declared) # ""}
    IN  IF sl.at # 0 THEN [why |-> sl.why, graph |-> EmptyGraph]
        ELSE IF ~cfg.hasDeps
             THEN [why |-> "",
                   graph |-> [Services |-> Services, Tree |-> tree0,
                              ReverseTree |-> EmptyTree]]
        ELSE IF bad # {}
             THEN [why |-> DepError(CHOOSE d \in bad : TRUE, declared),
                   graph |-> EmptyGraph]
        ELSE LET tree1 == TreeInsert(tree0, cfg.deps)
                 reverseTree1 == ReverseTreeInsert(cfg.deps)
                 check == CycleCheck(tree1, reverseTree1)
             IN  IF check = "ok"
                 THEN [why |-> "",
                       graph |-> [Services |-> Services, Tree |-> tree1,
                                  ReverseTree |-> reverseTree1]]
                 ELSE IF check = "cycle"
                      THEN [why |-> "cycle in dependencies", graph |-> EmptyGraph]
                      ELSE [why |-> "exception", graph |-> EmptyGraph]

\* ------------------------------------------------ TRouterDRequest members
\* The assignment is left out: the request keeps its default-constructed graph.
SetGraph_NotCopied(graph) == EmptyGraph

\* Graph = graph.
SetGraph(graph) == graph

\* The erase is left out.
NewReply_NoErase(inProgress, name) == inProgress

\* InProgress.erase(name).
NewReply(inProgress, name) == inProgress \ {name}

\* InProgress.insert(name).
NewRequest(inProgress, name) == inProgress \cup {name}

\* InProgress.size().
InProgressCount(inProgress) == Cardinality(inProgress)

\* count(name) >= 0 instead of count(name) > 0.
IsInProgress_Always(inProgress, name) == TRUE

\* InProgress.count(name) > 0.
IsInProgress(inProgress, name) == name \in inProgress

\* AddPart appends the part to the request's response.
AddPart(ps, part) == Append(ps, part)

\* PreparePart(partName): a part labelled with the service's name.
PreparePart(partName, kind) == [name |-> partName, kind |-> kind]

\* OutgoingRequest(): the body sent downstream carries every part added so far.
OutgoingRequest(ps) == ps

\* ------------------------------------------- TRouterDProxyHandler members
\* The reply of serviceName is folded into the request's copy of the graph:
\* it stops being a dependency of the services that depend on it and leaves
\* the tree.
GraphReplied(graph, serviceName) ==
    LET dependents == IF serviceName \in DOMAIN graph.ReverseTree
                      THEN graph.ReverseTree[serviceName] ELSE {}
    IN  [Services |-> graph.Services,
         Tree |-> Erase([x \in DOMAIN graph.Tree |->
                            IF x \in dependents THEN graph.Tree[x] \ {serviceName}
                                                ELSE graph.Tree[x]],
                        serviceName),
         ReverseTree |-> Erase(graph.ReverseTree, serviceName)]

\* The services the readiness scan of Iter finds: in the tree, with no
\* dependency left, not in progress.
Ready(graph, inProgress) ==
    {s \in DOMAIN graph.Tree : graph.Tree[s] = {} /\ ~IsInProgress(inProgress, s)}

RECURSIVE NewRequests(_, _)
NewRequests(inProgress, names) ==
    IF names = {} THEN inProgress
    ELSE LET s == Min(names) IN NewRequests(NewRequest(inProgress, s), names \ {s})

\* Nothing is pending and nothing is in progress.
Complete(graph, inProgress) ==
    /\ \A s \in DOMAIN graph.Tree : IsInProgress(inProgress, s)
    /\ InProgressCount(inProgress) = 0

\* Iter(request) from the state (graph, inProgress, ps): every ready service
\* moves to in progress and its downstream request is issued; the client is
\* answered when nothing is pending or in progress and the latch is unset.
Iter(graph, inProgress, ps) ==
    LET ready == Ready(graph, inProgress)
        inProgress2 == NewRequests(inProgress, ready)
    IN  /\ InProgress' = inProgress2
        /\ dispatched' = [s \in DOMAIN dispatched |->
                             IF s \in ready THEN dispatched[s] + 1 ELSE dispatched[s]]
        /\ body' = [s \in DOMAIN body |->
                       IF s \in ready THEN OutgoingRequest(ps) ELSE body[s]]
        /\ outstanding' = outstanding \cup ready
        /\ IF Complete(graph, inProgress2) /\ ~done
           THEN /\ done' = TRUE
                /\ response' = Append(response, ps)
           ELSE UNCHANGED <<done, response>>

\* ------------------------------------------------------------ the machine
Service(n) == [Name |-> n, HostsFrom |-> n]

ServiceLists ==
    {[i \in 1..k |-> Service(i)] : k \in 0..MaxServices}
    \cup {Append([i \in 1..k |-> Service(i)], Service(1)) : k \in 1..(MaxServices - 1)}

DepLists == {d \in SUBSET (Names \X Names) : Cardinality(d) <= MaxDeps}

Configs ==
    {c \in [services : ServiceLists, hosts : {Names, Names \ {1}},
            hasDeps : BOOLEAN, deps : DepLists] :
        ~c.hasDeps => c.deps = {}}

mainVars == <<pc, tree, reverseTree, compiledGraph, noDeps, rounds, graphs>>

\* What the host pool, the request's mutex and further requests add to the
\* state: left aside where one request is followed with its handlers atomic.
sideVars == <<hostSpec, Hosts, cursor, picker, picks, lock, cb, local, requests,
              handled>>

SideIdle ==
    /\ hostSpec = <<>>
    /\ Hosts = <<>>
    /\ cursor = 0
    /\ picker = <<>>
    /\ picks = <<>>
    /\ lock = 0
    /\ cb = <<>>
    /\ local = <<>>
    /\ requests = <<>>
    /\ handled = 0

\* RouterDMain is taken as one step: its locals are not followed.
MainNotTraced ==
    /\ pc = "off"
    /\ tree = EmptyTree
    /\ reverseTree = EmptyTree
    /\ compiledGraph = EmptyGraph
    /\ noDeps = {}
    /\ rounds = 0
    /\ graphs = {}

Init ==
    /\ config \in Configs
    /\ phase = "startup"
    /\ diag = ""
    /\ Graph = EmptyGraph
    /\ started = FALSE
    /\ reqGraph = EmptyGraph
    /\ InProgress = {}
    /\ parts = <<>>
    /\ done = FALSE
    /\ response = <<>>
    /\ dispatched = [s \in Names \cup {UnknownName} |-> 0]
    /\ body = [s \in Names \cup {UnknownName} |-> <<>>]
    /\ outstanding = {}
    /\ callbacks = {}
    /\ spurious = 0
    /\ raced = FALSE
    /\ MainNotTraced
    /\ SideIdle

requestVars == <<started, reqGraph, InProgress, parts, done, response,
                 dispatched, body, outstanding, callbacks, spurious, raced>>

\* RouterDMain up to Run(): the graph is compiled and its handler registered,
\* or the process returns 1 with a diagnostic.
StartupOk ==
    /\ phase = "startup"
    /\ Compile(config).why = ""
    /\ phase' = "serving"
    /\ Graph' = Compile(config).graph
    /\ UNCHANGED <<config, diag>>
    /\ UNCHANGED requestVars
    /\ UNCHANGED mainVars
    /\ UNCHANGED sideVars

StartupFail ==
    /\ phase = "startup"
    /\ Compile(config).why \notin {"", "exception"}
    /\ phase' = "exit1"
    /\ diag' = Compile(config).why
    /\ UNCHANGED <<config, Graph>>
    /\ UNCHANGED requestVars
    /\ UNCHANGED mainVars
    /\ UNCHANGED sideVars

\* TRouterDProxyHandler::Handle: the request gets its copy of the graph and
\* the first readiness scan runs.
Handle ==
    /\ phase = "serving"
    /\ ~started
    /\ started' = TRUE
    /\ reqGraph' = SetGraph(Graph)
    /\ Iter(SetGraph(Graph), InProgress, parts)
    /\ UNCHANGED <<config, phase, diag, Graph, parts, callbacks, spurious, raced>>
    /\ UNCHANGED mainVars
    /\ UNCHANGED sideVars

\* TRouterDProxyHandler::ServiceReplied under the request's lock: the reply
\* of a service in progress is recorded and the readiness scan runs again; any
\* other callback is dropped.
ServiceReplied(serviceName, kind) ==
    IF IsInProgress(InProgress, serviceName) /\ ~done
    THEN /\ parts' = AddPart(parts, PreparePart(serviceName, kind))
         /\ reqGraph' = GraphReplied(reqGraph, serviceName)
         /\ Iter(GraphReplied(reqGraph, serviceName),
                 NewReply(InProgress, serviceName),
                 AddPart(parts, PreparePart(serviceName, kind)))
    ELSE UNCHANGED <<reqGraph, InProgress, parts, done, response, dispatched,
                     body, outstanding>>

\* The downstream client calls back for an issued request.  The callback
\* arrives on a worker thread and waits for the request's lock.
ReplyArrives(s) ==
    /\ s \in outstanding
    /\ outstanding' = outstanding \ {s}
    /\ callbacks' = callbacks \cup {s}
    /\ UNCHANGED <<config, phase, diag, Graph, started, reqGraph, InProgress,
                   parts, done, response, dispatched, body, spurious, raced>>
    /\ UNCHANGED mainVars
    /\ UNCHANGED sideVars

\* Two services are in progress, nothing is pending, and the callbacks of
\* both wait for the lock.
LastTwoWait ==
    /\ Cardinality(InProgress) = 2
    /\ DOMAIN reqGraph.Tree = InProgress
    /\ callbacks = InProgress

\* The waiting callback of s takes the request's lock and runs; kind is what
\* the downstream client hands it: the reply, or the error synthesized for a
\* failed connect, a timeout or a non-2xx status.
CallbackRuns(s, kind) ==
    /\ s \in callbacks
    /\ callbacks' = callbacks \ {s}
    /\ ServiceReplied(s, kind)
    /\ raced' = (raced \/ LastTwoWait)
    /\ UNCHANGED <<config, phase, diag, Graph, started, spurious>>
    /\ UNCHANGED mainVars
    /\ UNCHANGED sideVars

\* A misbehaving downstream calls back once more, for a service whose
\* callback was already produced or under a name the graph does not have; the
\* callback takes the lock and runs.
ExtraCallbackRuns(s, kind) ==
    /\ started
    /\ spurious < MaxSpurious
    /\ \/ dispatched[s] > 0 /\ s \notin outstanding
       \/ s \notin DOMAIN Graph.Services
    /\ spurious' = spurious + 1
    /\ ServiceReplied(s, kind)
    /\ UNCHANGED <<config, phase, diag, Graph, started, callbacks, raced>>
    /\ UNCHANGED mainVars
    /\ UNCHANGED sideVars

AllNames == Names \cup {UnknownName}

Next ==
    \/ StartupOk
    \/ StartupFail
    \/ Handle
    \/ \E s \in Names : ReplyArrives(s)
    \/ \E s \in Names, kind \in Kinds : CallbackRuns(s, kind)
    \/ \E s \in AllNames, kind \in Kinds : ExtraCallbackRuns(s, kind)

Spec == Init /\ [][Next]_vars


\* ------------------------------------------- RouterDMain, statement by statement
\* The one graph the configuration declares under "graphs".
GraphName == "g"

\* The g of the entries of "routes": the declared graph, or one never declared.
RouteLists == {<<GraphName>>, <<"h">>}

MainConfigs ==
    {c \in [services : ServiceLists, hosts : {Names, Names \ {1}},
            hasDeps : BOOLEAN, deps : DepLists, routes : RouteLists] :
        ~c.hasDeps => c.deps = {}}

MainInit ==
    /\ config \in MainConfigs
    /\ phase = "startup"
    /\ diag = ""
    /\ Graph = EmptyGraph
    /\ started = FALSE
    /\ reqGraph = EmptyGraph
    /\ InProgress = {}
    /\ parts = <<>>
    /\ done = FALSE
    /\ response = <<>>
    /\ dispatched = [s \in Names \cup {UnknownName} |-> 0]
    /\ body = [s \in Names \cup {UnknownName} |-> <<>>]
    /\ outstanding = {}
    /\ callbacks = {}
    /\ spurious = 0
    /\ raced = FALSE
    /\ pc = "services"
    /\ tree = EmptyTree
    /\ reverseTree = EmptyTree
    /\ compiledGraph = EmptyGraph
    /\ noDeps = {}
    /\ rounds = 0
    /\ graphs = {}
    /\ SideIdle

\* return 1 after the diagnostic why.
Return1(why) ==
    /\ phase' = "exit1"
    /\ diag' = why
    /\ pc' = "end"

\* An exception leaves RouterDMain, which catches nothing.
Throws(what) ==
    /\ phase' = "threw"
    /\ diag' = what
    /\ pc' = "end"

\* compiledGraph.Tree sharing the working tree instead of holding a copy.
KeptTree_Aliased(kept, working) == working

\* compiledGraph.Tree was assigned a copy of tree: what it holds after the
\* working tree changed.
KeptTree(kept, working) == kept

\* The loop over data["services"].
MainServices ==
    /\ pc = "services"
    /\ LET sl == ServicesLoop(config.services, config.hosts, 1, {}) IN
       IF sl.at # 0
       THEN /\ Return1(sl.why)
            /\ UNCHANGED <<tree, compiledGraph>>
       ELSE /\ tree' = InitialTree(config.services)
            /\ compiledGraph' = [compiledGraph EXCEPT
                                    !.Services = ServiceMap(config.services)]
            /\ pc' = IF config.hasDeps THEN "deps" ELSE "nodeps"
            /\ UNCHANGED <<phase, diag>>
    /\ UNCHANGED <<config, Graph, reverseTree, noDeps, rounds, graphs>>
    /\ UNCHANGED requestVars
    /\ UNCHANGED sideVars

\* The loop over data["deps"], then the two assignments to compiledGraph.
MainDeps ==
    /\ pc = "deps"
    /\ LET bad == {d \in config.deps :
                      DepError(d, DOMAIN compiledGraph.Services) # ""} IN
       IF bad # {}
       THEN /\ Return1(DepError(CHOOSE d \in bad : TRUE,
                                DOMAIN compiledGraph.Services))
            /\ UNCHANGED <<tree, reverseTree, compiledGraph>>
       ELSE /\ tree' = TreeInsert(tree, config.deps)
            /\ reverseTree' = ReverseTreeInsert(config.deps)
            /\ compiledGraph' = [compiledGraph EXCEPT
                                    !.Tree = TreeInsert(tree, config.deps),
                                    !.ReverseTree = ReverseTreeInsert(config.deps)]
            /\ pc' = "while"
            /\ UNCHANGED <<phase, diag>>
    /\ UNCHANGED <<config, Graph, noDeps, rounds, graphs>>
    /\ UNCHANGED requestVars
    /\ UNCHANGED sideVars

\* The else branch: compiledGraph.Tree = tree.
MainNoDeps ==
    /\ pc = "nodeps"
    /\ compiledGraph' = [compiledGraph EXCEPT !.Tree = tree]
    /\ pc' = "register"
    /\ UNCHANGED <<config, phase, diag, Graph, tree, reverseTree, noDeps, rounds,
                   graphs>>
    /\ UNCHANGED requestVars
    /\ UNCHANGED sideVars

\* The test of while (!tree.empty()), and in the body the loop that fills
\* noDeps and the test of noDeps.empty().
MainWhile ==
    /\ pc = "while"
    /\ IF DOMAIN tree = {}
       THEN /\ pc' = "register"
            /\ UNCHANGED <<phase, diag, noDeps, rounds>>
       ELSE /\ rounds' = rounds + 1
            /\ noDeps' = NoDeps(tree)
            /\ IF NoDeps(tree) = {}
               THEN Return1("cycle in dependencies")
               ELSE /\ pc' = "erase"
                    /\ UNCHANGED <<phase, diag>>
    /\ UNCHANGED <<config, Graph, tree, reverseTree, compiledGraph, graphs>>
    /\ UNCHANGED requestVars
    /\ UNCHANGED sideVars

\* One iteration of the loop over noDeps, for the entry it1.
MainErase(it1) ==
    /\ pc = "erase"
    /\ it1 \in noDeps
    /\ IF LookupMisses(tree, reverseTree, it1)
       THEN /\ Throws("tree.at")
            /\ UNCHANGED <<tree, reverseTree, compiledGraph, noDeps>>
       ELSE /\ tree' = EraseFromTree(tree, reverseTree, it1)
            /\ reverseTree' = Erase(reverseTree, it1)
            /\ compiledGraph' =
                   [compiledGraph EXCEPT
                       !.Tree = KeptTree(compiledGraph.Tree,
                                         EraseFromTree(tree, reverseTree, it1)),
                       !.ReverseTree = KeptTree(compiledGraph.ReverseTree,
                                                Erase(reverseTree, it1))]
            /\ noDeps' = noDeps \ {it1}
            /\ pc' = IF noDeps \ {it1} = {} THEN "while" ELSE "erase"
            /\ UNCHANGED <<phase, diag>>
    /\ UNCHANGED <<config, Graph, rounds, graphs>>
    /\ UNCHANGED requestVars
    /\ UNCHANGED sideVars

\* graphs.emplace(graph.first, handler of compiledGraph).
MainRegister ==
    /\ pc = "register"
    /\ graphs' = graphs \cup {GraphName}
    /\ Graph' = compiledGraph
    /\ pc' = "routes"
    /\ UNCHANGED <<config, phase, diag, tree, reverseTree, compiledGraph, noDeps,
                   rounds>>
    /\ UNCHANGED requestVars
    /\ UNCHANGED sideVars

\* The loop over config["routes"] with graphs.at(g), then the server runs.
MainRoutes ==
    /\ pc = "routes"
    /\ IF \E i \in 1..Len(config.routes) : config.routes[i] \notin graphs
       THEN Throws("graphs.at")
       ELSE /\ phase' = "serving"
            /\ pc' = "end"
            /\ UNCHANGED diag
    /\ UNCHANGED <<config, Graph, tree, reverseTree, compiledGraph, noDeps, rounds,
                   graphs>>
    /\ UNCHANGED requestVars
    /\ UNCHANGED sideVars

MainNext ==
    \/ MainServices
    \/ MainDeps
    \/ MainNoDeps
    \/ MainWhile
    \/ \E it1 \in Names : MainErase(it1)
    \/ MainRegister
    \/ MainRoutes

MainSpec == MainInit /\ [][MainNext]_vars

\* RouterDMain keeps running until it returns, throws or runs the server.
MainLiveSpec == MainSpec /\ WF_vars(MainNext)

\* ------------------------------------------------------------ the host pool
\* A "host:port" string as its characters.
HostStrings ==
    {<<"a", ":", "1">>, <<"b", ":", "2">>, <<"c", ":", "3">>,
     <<":", ":", "1", ":", "4">>, <<"e">>}

HostSpecs == UNION {[1..k -> HostStrings] : k \in 0..MaxHosts}

\* host.rfind(':') as a position from 1, 0 when there is none.
RFind(host, ch) ==
    LET at == {i \in 1..Len(host) : host[i] = ch}
    IN  IF at = {} THEN 0 ELSE CHOOSE i \in at : \A j \in at : j <= i

Digits == [c \in {"0", "1", "2", "3", "4", "5", "6", "7", "8", "9"} |->
              CASE c = "0" -> 0 [] c = "1" -> 1 [] c = "2" -> 2 [] c = "3" -> 3
                [] c = "4" -> 4 [] c = "5" -> 5 [] c = "6" -> 6 [] c = "7" -> 7
                [] c = "8" -> 8 [] c = "9" -> 9]

\* ss >> port: the number the leading digits of text spell after acc.
RECURSIVE ReadPort(_, _)
ReadPort(text, acc) ==
    IF text = <<>> \/ Head(text) \notin DOMAIN Digits THEN acc
    ELSE ReadPort(Tail(text), acc * 10 + Digits[Head(text)])

\* TServiceHost { Addr = host up to the last colon, Port = what follows it }.
ParseHost(host) ==
    [Addr |-> SubSeq(host, 1, RFind(host, ":") - 1),
     Port |-> ReadPort(SubSeq(host, RFind(host, ":") + 1, Len(host)), 0)]

\* hosts_.emplace_back at the front of the vector instead of its back.
EmplaceBack_Front(hosts_, host) == <<host>> \o hosts_

\* hosts_.emplace_back(host).
EmplaceBack(hosts_, host) == Append(hosts_, host)

\* The loop over the strings of one host group: the vector built, or the
\* diagnostic of the first string without a colon.
RECURSIVE HostsLoop(_, _)
HostsLoop(spec, hosts_) ==
    IF spec = <<>> THEN [why |-> "", hosts |-> hosts_]
    ELSE IF RFind(Head(spec), ":") = 0
         THEN [why |-> "has no port specified", hosts |-> hosts_]
    ELSE HostsLoop(Tail(spec), EmplaceBack(hosts_, ParseHost(Head(spec))))

Pickers == 1..MaxPickers

NoPick == [at |-> 0]

\* No request is being handled and RouterDMain's graph locals are not traced.
RequestNotStarted ==
    /\ started = FALSE
    /\ reqGraph = EmptyGraph
    /\ InProgress = {}
    /\ parts = <<>>
    /\ done = FALSE
    /\ response = <<>>
    /\ dispatched = [s \in Names \cup {UnknownName} |-> 0]
    /\ body = [s \in Names \cup {UnknownName} |-> <<>>]
    /\ outstanding = {}
    /\ callbacks = {}
    /\ spurious = 0
    /\ raced = FALSE

NoGraphs == [services |-> <<>>, hosts |-> {}, hasDeps |-> FALSE, deps |-> {}]

PickInit ==
    /\ hostSpec \in HostSpecs
    /\ Hosts = <<>>
    /\ cursor = 0
    /\ picker = [t \in Pickers |-> [at |-> "out", fetched |-> 0]]
    /\ picks = [i \in 0..(MaxPicks - 1) |-> NoPick]
    /\ lock = 0
    /\ cb = <<>>
    /\ local = <<>>
    /\ requests = <<>>
    /\ handled = 0
    /\ config = NoGraphs
    /\ phase = "startup"
    /\ diag = ""
    /\ Graph = EmptyGraph
    /\ RequestNotStarted
    /\ MainNotTraced

pickFrame == <<config, Graph, started, reqGraph, InProgress, parts, done, response,
               dispatched, body, outstanding, callbacks, spurious, raced, pc,
               tree, reverseTree, compiledGraph, noDeps, rounds, graphs, lock, cb,
               local, requests, handled>>

\* RouterDMain's loop over config["hosts"] for the one group, then Run().
PickStartup ==
    /\ phase = "startup"
    /\ IF hostSpec = <<>>
       THEN /\ phase' = "exit1"
            /\ diag' = "has no hosts"
            /\ UNCHANGED Hosts
       ELSE IF HostsLoop(hostSpec, <<>>).why # ""
       THEN /\ phase' = "exit1"
            /\ diag' = HostsLoop(hostSpec, <<>>).why
            /\ UNCHANGED Hosts
       ELSE /\ phase' = "serving"
            /\ Hosts' = HostsLoop(hostSpec, <<>>).hosts
            /\ UNCHANGED diag
    /\ UNCHANGED <<hostSpec, cursor, picker, picks>>
    /\ UNCHANGED pickFrame

\* GetHost on thread t: the cursor of the group is fetched and incremented in
\* one atomic step.
GetHostFetch(t) ==
    /\ phase = "serving"
    /\ picker[t].at = "out"
    /\ cursor < MaxPicks
    /\ picker' = [picker EXCEPT ![t] = [at |-> "in", fetched |-> cursor]]
    /\ cursor' = cursor + 1
    /\ UNCHANGED <<hostSpec, Hosts, picks, phase, diag>>
    /\ UNCHANGED pickFrame

\* GetHost on thread t returns the entry the fetched value selects.
GetHostReturn(t) ==
    /\ picker[t].at = "in"
    /\ LET at == (picker[t].fetched % Len(Hosts)) + 1
       IN  picks' = [picks EXCEPT ![picker[t].fetched] =
                        [at |-> at, host |-> Hosts[at]]]
    /\ picker' = [picker EXCEPT ![t] = [at |-> "out", fetched |-> 0]]
    /\ UNCHANGED <<hostSpec, Hosts, cursor, phase, diag>>
    /\ UNCHANGED pickFrame

PickNext ==
    \/ PickStartup
    \/ \E t \in Pickers : GetHostFetch(t)
    \/ \E t \in Pickers : GetHostReturn(t)

PickSpec == PickInit /\ [][PickNext]_vars

\* ------------------------------------------------------ the request's mutex
\* The thread Handle runs on; reply callbacks are named by their service.
HandleThread == MaxServices + 1

LockThreads == Names \cup {HandleThread}

\* The mutex taken whether or not it is held.
CanLock_Always(l) == TRUE

\* The mutex can be taken.
CanLock(l) == l = 0

\* The configurations RouterDMain starts the server for.
ServedConfigs == {c \in Configs : Compile(c).why = ""}

LockInit ==
    /\ config \in ServedConfigs
    /\ phase = "serving"
    /\ diag = ""
    /\ Graph = Compile(config).graph
    /\ RequestNotStarted
    /\ MainNotTraced
    /\ hostSpec = <<>>
    /\ Hosts = <<>>
    /\ cursor = 0
    /\ picker = <<>>
    /\ picks = <<>>
    /\ lock = 0
    /\ cb = [t \in LockThreads |-> "none"]
    /\ local = [t \in LockThreads |-> <<>>]
    /\ requests = <<>>
    /\ handled = 0

lockFrame == <<config, phase, diag, Graph, callbacks, spurious, raced, pc, tree,
               reverseTree, compiledGraph, noDeps, rounds, graphs, hostSpec,
               Hosts, cursor, picker, picks, requests, handled>>

\* Handle takes the request's mutex and gives the request its copy of the graph.
HandleLocks ==
    /\ ~started
    /\ CanLock(lock)
    /\ lock' = HandleThread
    /\ cb' = [cb EXCEPT ![HandleThread] = "recorded"]
    /\ started' = TRUE
    /\ reqGraph' = SetGraph(Graph)
    /\ UNCHANGED <<InProgress, parts, done, response, dispatched, body,
                   outstanding, local>>
    /\ UNCHANGED lockFrame

\* The downstream client calls back on a worker thread for the request issued
\* to s.
CallbackArrives(s) ==
    /\ s \in outstanding
    /\ cb[s] = "none"
    /\ outstanding' = outstanding \ {s}
    /\ cb' = [cb EXCEPT ![s] = "arrived"]
    /\ UNCHANGED <<started, reqGraph, InProgress, parts, done, response,
                   dispatched, body, lock, local>>
    /\ UNCHANGED lockFrame

\* ServiceReplied takes the request's mutex.
CallbackLocks(s) ==
    /\ cb[s] = "arrived"
    /\ CanLock(lock)
    /\ lock' = s
    /\ cb' = [cb EXCEPT ![s] = "locked"]
    /\ UNCHANGED <<started, reqGraph, InProgress, parts, done, response,
                   dispatched, body, outstanding, local>>
    /\ UNCHANGED lockFrame

\* ServiceReplied reads the state of the request.
CallbackReads(s) ==
    /\ cb[s] = "locked"
    /\ local' = [local EXCEPT ![s] =
                    [InProgress |-> InProgress, parts |-> parts, Graph |-> reqGraph]]
    /\ cb' = [cb EXCEPT ![s] = "read"]
    /\ UNCHANGED <<started, reqGraph, InProgress, parts, done, response,
                   dispatched, body, outstanding, lock>>
    /\ UNCHANGED lockFrame

\* ServiceReplied writes the state back with the reply recorded; a callback
\* for a service not in progress changes nothing.
CallbackRecords(s, kind) ==
    /\ cb[s] = "read"
    /\ IF IsInProgress(local[s].InProgress, s) /\ ~done
       THEN /\ parts' = AddPart(local[s].parts, PreparePart(s, kind))
            /\ reqGraph' = GraphReplied(local[s].Graph, s)
            /\ InProgress' = NewReply(local[s].InProgress, s)
            /\ cb' = [cb EXCEPT ![s] = "recorded"]
       ELSE /\ UNCHANGED <<parts, reqGraph, InProgress>>
            /\ cb' = [cb EXCEPT ![s] = "scanned"]
    /\ local' = [local EXCEPT ![s] = <<>>]
    /\ UNCHANGED <<started, done, response, dispatched, body, outstanding, lock>>
    /\ UNCHANGED lockFrame

\* The readiness scan of Iter, run by Handle or by ServiceReplied.
ThreadScans(t) ==
    /\ cb[t] = "recorded"
    /\ Iter(reqGraph, InProgress, parts)
    /\ cb' = [cb EXCEPT ![t] = "scanned"]
    /\ UNCHANGED <<started, reqGraph, parts, lock, local>>
    /\ UNCHANGED lockFrame

\* The mutex is released on the way out.
ThreadUnlocks(t) ==
    /\ cb[t] = "scanned"
    /\ lock' = 0
    /\ cb' = [cb EXCEPT ![t] = "none"]
    /\ UNCHANGED <<started, reqGraph, InProgress, parts, done, response,
                   dispatched, body, outstanding, local>>
    /\ UNCHANGED lockFrame

LockNext ==
    \/ HandleLocks
    \/ \E s \in Names : CallbackArrives(s)
    \/ \E s \in Names : CallbackLocks(s)
    \/ \E s \in Names : CallbackReads(s)
    \/ \E s \in Names, kind \in Kinds : CallbackRecords(s, kind)
    \/ \E t \in LockThreads : ThreadScans(t)
    \/ \E t \in LockThreads : ThreadUnlocks(t)

LockSpec == LockInit /\ [][LockNext]_vars

\* ------------------------------------------------- requests on one handler
Slots == 1..MaxSlots

NoRequest == [live |-> FALSE]

\* The request's Graph member referring to the handler's graph.
HandlerGraphAfter_Shared(handlerGraph, requestGraph) == requestGraph

\* The handler's Graph member after a request's Graph member was written
\* through GetGraph(): the request holds a TRouterDGraph by value, another
\* object than the handler's.
HandlerGraphAfter(handlerGraph, requestGraph) == handlerGraph

ShareInit ==
    /\ config \in ServedConfigs
    /\ phase = "serving"
    /\ diag = ""
    /\ Graph = Compile(config).graph
    /\ RequestNotStarted
    /\ MainNotTraced
    /\ hostSpec = <<>>
    /\ Hosts = <<>>
    /\ cursor = 0
    /\ picker = <<>>
    /\ picks = <<>>
    /\ lock = 0
    /\ cb = <<>>
    /\ local = <<>>
    /\ requests = [r \in Slots |-> NoRequest]
    /\ handled = 0

shareFrame == <<config, phase, diag, started, reqGraph, InProgress, parts, done,
                response, dispatched, body, outstanding, callbacks, spurious,
                raced, pc, tree, reverseTree, compiledGraph, noDeps, rounds,
                graphs, hostSpec, Hosts, cursor, picker, picks, lock, cb, local>>

\* A request after a readiness scan: answered and gone when
\* nothing is pending or in progress.
Scanned(graph, inProgress, replied) ==
    LET inProgress2 == NewRequests(inProgress, Ready(graph, inProgress))
    IN  IF Complete(graph, inProgress2) THEN NoRequest
        ELSE [live |-> TRUE, Graph |-> graph, InProgress |-> inProgress2,
              replied |-> replied]

\* Handle for a new request, in the lowest slot that holds none.
HandleRequest(r) ==
    /\ handled < MaxRequests
    /\ ~requests[r].live
    /\ \A q \in Slots : q < r => requests[q].live
    /\ handled' = handled + 1
    /\ requests' = [requests EXCEPT ![r] = Scanned(SetGraph(Graph), {}, {})]
    /\ UNCHANGED Graph
    /\ UNCHANGED shareFrame

\* ServiceReplied for the request in slot r.
RequestReplied(r, serviceName) ==
    /\ requests[r].live
    /\ IsInProgress(requests[r].InProgress, serviceName)
    /\ LET graph2 == GraphReplied(requests[r].Graph, serviceName) IN
       /\ requests' = [requests EXCEPT ![r] =
              Scanned(graph2, NewReply(requests[r].InProgress, serviceName),
                      requests[r].replied \cup {serviceName})]
       /\ Graph' = HandlerGraphAfter(Graph, graph2)
    /\ UNCHANGED handled
    /\ UNCHANGED shareFrame

ShareNext ==
    \/ \E r \in Slots : HandleRequest(r)
    \/ \E r \in Slots, serviceName \in Names : RequestReplied(r, serviceName)

ShareSpec == ShareInit /\ [][ShareNext]_vars

\* The downstream client produces a terminal callback for every request it
\* was given, and a waiting callback eventually gets the lock.
LiveSpec ==
    /\ Spec
    /\ WF_vars(Handle)
    /\ WF_vars(\E s \in Names : ReplyArrives(s))
    /\ WF_vars(\E s \in Names, kind \in Kinds : CallbackRuns(s, kind))

\* ------------------------------------------------- what the claims speak of
\* The services the configuration declares for the graph.
Declared == ServiceNames(config.services)

\* The services a depends on: the b of every entry {a, b} of "deps".
DependsOn(a) == {d[2] : d \in {e \in config.deps : e[1] = a}}

PartNames(ps) == {ps[i].name : i \in 1..Len(ps)}

\* The positions of the parts of service s in ps.
PartsOf(ps, s) == {i \in 1..Len(ps) : ps[i].name = s}

\* Services whose reply has been recorded.
Replied == PartNames(parts)

\* Services no downstream request was issued for.
Pending == {s \in Declared : dispatched[s] = 0}

\* Services with a downstream request issued and no reply recorded.
Dispatching == {s \in AllNames : dispatched[s] > 0 /\ s \notin Replied}

RECURSIVE Total(_, _)
Total(f, S) == IF S = {} THEN 0 ELSE LET x == Min(S) IN f[x] + Total(f, S \ {x})

\* The state of the request a dropped callback must leave alone.
requestState == <<reqGraph, InProgress, parts, done, response, dispatched,
                  body, outstanding>>

\* ------------------------------------------------------------------ claims
\* C1: a service is dispatched only when the reply of every service it
\* depends on has been recorded.
C1_DepsRepliedBeforeDispatch ==
    phase = "serving" =>
        \A a \in AllNames : dispatched[a] > 0 => DependsOn(a) \subseteq Replied

\* A service with a dependency has been dispatched.
C1_Witness ==
    \E a \in Names : dispatched[a] > 0 /\ DependsOn(a) # {}

\* C2: no service is dispatched twice, and when the request has completed the
\* downstream requests issued are one per service of the graph.
C2_DispatchedOnce ==
    phase = "serving" =>
        /\ \A s \in AllNames : dispatched[s] <= 1
        /\ done => /\ \A s \in Declared : dispatched[s] = 1
                   /\ Total(dispatched, AllNames) = Cardinality(Declared)

\* A request over three services, one depending on another, has completed.
C2_Witness ==
    /\ done
    /\ Cardinality(Declared) >= 3
    /\ config.deps # {}
    /\ Total(dispatched, AllNames) = Cardinality(Declared)

\* C3: the client responder is invoked at most once, and only when no service
\* is pending and none is in progress, also when the callbacks of the last two
\* services in progress wait for the lock at the same time.
C3_ResponderOnce ==
    /\ Len(response) <= 1
    /\ done <=> Len(response) = 1
    /\ Len(response) = 1 => Pending = {} /\ Dispatching = {} /\ InProgress = {}

\* The responder has been invoked after the callbacks of the last two
\* services in progress had arrived together.
C3_Witness ==
    raced /\ Len(response) = 1

\* C4: once a request is handled, every service is eventually dispatched and
\* replied and the client responder is eventually invoked.
C4_RequestCompletes ==
    (phase = "serving") ~>
        (/\ Len(response) = 1
         /\ \A s \in Declared : dispatched[s] > 0 /\ s \in Replied)

\* A request over a chain of three services has been answered.
C4_Witness ==
    /\ Len(response) = 1
    /\ \E a, b, c \in Declared : b \in DependsOn(a) /\ c \in DependsOn(b)

\* C5: every service of the graph is pending, in progress or replied, and in
\* one of the three only.
C5_ExactlyOneState ==
    phase = "serving" =>
        /\ Pending \cap InProgress = {}
        /\ Pending \cap Replied = {}
        /\ InProgress \cap Replied = {}
        /\ Pending \cup InProgress \cup Replied = Declared
        /\ started => Pending = {s \in DOMAIN reqGraph.Tree : s \notin InProgress}

\* One service is pending, one in progress and one replied.
C5_Witness ==
    /\ phase = "serving"
    /\ Pending # {}
    /\ InProgress # {}
    /\ Replied # {}

\* C6: the response given to the client responder holds the reply of every
\* service of the graph exactly once, and no other part.
C6_EveryReplyOnce ==
    \A i \in 1..Len(response) :
        /\ \A s \in Declared : Cardinality(PartsOf(response[i], s)) = 1
        /\ PartNames(response[i]) \subseteq Declared

\* The responder was given three parts, after an extra callback had run.
C6_Witness ==
    /\ Len(response) = 1
    /\ Len(response[1]) >= 3
    /\ spurious > 0

\* C7: a callback for a service that is not in progress changes nothing of the
\* request: nothing is recorded, scanned or dispatched and the responder is not
\* invoked.
C7_StrayReplyDropped ==
    [][/\ \A s \in callbacks :
              callbacks' = callbacks \ {s} /\ s \notin Dispatching
                  => UNCHANGED requestState
       /\ spurious' # spurious /\ requestState' # requestState
              => \A s \in AllNames, kind \in Kinds :
                     ExtraCallbackRuns(s, kind) => s \in Dispatching]_vars

\* Every callback has run, an extra one among them, and the request holds one
\* part for each service: a callback was dropped.
C7_Witness ==
    /\ Len(response) = 1
    /\ spurious > 0
    /\ callbacks = {}
    /\ outstanding = {}
    /\ Declared # {}
    /\ Len(parts) = Cardinality(Declared)

\* A service's error part has been recorded.
FailureRecorded == \E i \in 1..Len(parts) : parts[i].kind = "error"

\* C8: the error callback of a service in progress is recorded as its reply:
\* the service leaves in progress, its error part is added, the services it
\* was the last missing dependency of are dispatched, the request still
\* completes, and the response given to the client holds the error part.
C8_FailureIsReply ==
    /\ [][\A s \in callbacks \cap Dispatching :
              CallbackRuns(s, "error")
                  => /\ s \notin InProgress'
                     /\ parts' = Append(parts, [name |-> s, kind |-> "error"])
                     /\ {a \in AllNames : dispatched'[a] > dispatched[a]}
                            = {a \in Pending : DependsOn(a) \subseteq Replied \cup {s}}]_vars
    /\ FailureRecorded ~>
           (Len(response) = 1 /\ \A i \in 1..Len(parts) : parts[i] \in Range(response[1]))

\* The request has completed although a dependency of a service failed.
C8_Witness ==
    /\ Len(response) = 1
    /\ \E a \in Declared : \E b \in DependsOn(a) :
           [name |-> b, kind |-> "error"] \in Range(response[1])

\* C9: the body sent to a service at its dispatch holds the reply parts of
\* every service it depends on, and every part recorded by then.
C9_BodyHasDependencies ==
    [][\A a \in AllNames :
           dispatched'[a] > dispatched[a]
               => /\ DependsOn(a) \subseteq PartNames(body'[a])
                  /\ body'[a] = parts']_vars

\* A service with two dependencies was sent a body with the parts of both.
C9_Witness ==
    \E a \in Names :
        /\ dispatched[a] > 0
        /\ Cardinality(DependsOn(a)) >= 2
        /\ DependsOn(a) \subseteq PartNames(body[a])

\* C10: in the response given to the client the parts of a service come after
\* the parts of every service it depends on.
C10_DependentsAfterDependencies ==
    \A n \in 1..Len(response) :
        \A a \in Declared : \A b \in DependsOn(a) :
            \A i \in PartsOf(response[n], a) : \A j \in PartsOf(response[n], b) :
                j < i

\* The responder was given the parts of a chain of three services.
C10_Witness ==
    /\ Len(response) = 1
    /\ \E a, b, c \in PartNames(response[1]) :
           b \in DependsOn(a) /\ c \in DependsOn(b)

\* ------------------------------------------------ claims about RouterDMain
\* R composed with itself n more times, united with R: the pairs joined by a
\* path of at most n + 1 entries.
RECURSIVE Paths(_, _)
Paths(R, n) ==
    IF n = 0 THEN R
    ELSE LET P == Paths(R, n - 1) IN
         P \cup {<<pq[1][1], pq[2][2]>> :
                    pq \in {x \in P \X R : x[1][2] = x[2][1]}}

\* Some service depends on itself through one or more entries of deps.
Cyclic == \E a \in Names : <<a, a>> \in Paths(config.deps, MaxServices)

\* Every service entry and every dependency entry is acceptable on its own.
EntriesValid ==
    /\ \A i \in 1..Len(config.services) :
           /\ config.services[i].HostsFrom \in config.hosts
           /\ \A j \in 1..(i - 1) : config.services[j].Name # config.services[i].Name
    /\ \A d \in config.deps : d[1] # d[2] /\ d[1] \in Declared /\ d[2] \in Declared

\* The graph got through its validation.
Compiled == pc \in {"register", "routes"} \/ (pc = "end" /\ graphs # {})

CycleReported == phase = "exit1" /\ diag = "cycle in dependencies"

\* C11: a graph whose entries are each valid compiles exactly when deps has no
\* cycle; with a cycle startup ends with the cycle diagnostic and exit code 1.
C11_CompiledIffAcyclic ==
    (EntriesValid /\ pc \in {"register", "routes", "end"})
        => /\ Compiled <=> ~Cyclic
           /\ ~Compiled => CycleReported

\* A cycle through three services, and no shorter one, was reported.
C11_Witness ==
    /\ EntriesValid
    /\ CycleReported
    /\ \A d \in config.deps : <<d[2], d[1]>> \notin config.deps

\* The adjacency the entries of deps describe, forward and reverse.
ForwardOf == [a \in Declared |-> DependsOn(a)]

ReverseOf ==
    [b \in {d[2] : d \in config.deps} |-> {a \in Declared : b \in DependsOn(a)}]

\* C12: from the moment they are assigned, through every round of the
\* validation loop and in the registered handler, Tree and ReverseTree of the
\* compiled graph are the adjacency built from deps; the loop removes nodes and
\* edges from its working maps only.
C12_RetainedAdjacency ==
    /\ (pc \in {"while", "erase", "register", "routes"} \/ Compiled)
           => /\ compiledGraph.Tree = ForwardOf
              /\ compiledGraph.ReverseTree = ReverseOf
    /\ graphs # {} => Graph.Tree = ForwardOf /\ Graph.ReverseTree = ReverseOf

\* A graph with dependencies was registered after the loop had emptied its
\* working maps in two or more rounds.
C12_Witness ==
    /\ graphs # {}
    /\ rounds >= 2
    /\ tree = EmptyTree
    /\ reverseTree = EmptyTree
    /\ \E a \in Declared : Graph.Tree[a] # {}

\* The keys of an adjacency map and the members of its sets.
NamesIn(t) == DOMAIN t \cup UNION {t[k] : k \in DOMAIN t}

\* The pairs <<a, b>> with b in t[a].
EdgesOf(t) == UNION {{<<a, b>> : b \in t[a]} : a \in DOMAIN t}

\* C13: in a compiled graph every name of Tree and ReverseTree, key or member,
\* is a key of Services, no service is in its own Tree set, and no service
\* reaches itself along Tree.
C13_CompiledGraphInvariants ==
    Compiled =>
        /\ NamesIn(compiledGraph.Tree) \subseteq DOMAIN compiledGraph.Services
        /\ NamesIn(compiledGraph.ReverseTree) \subseteq DOMAIN compiledGraph.Services
        /\ \A a \in DOMAIN compiledGraph.Tree : a \notin compiledGraph.Tree[a]
        /\ \A a \in Names \cup {UnknownName} :
               <<a, a>> \notin Paths(EdgesOf(compiledGraph.Tree), MaxServices)

\* A graph compiled in which one service depends on another through a third.
C13_Witness ==
    /\ Compiled
    /\ \E a, b, c \in DOMAIN compiledGraph.Services :
           /\ b \in compiledGraph.Tree[a]
           /\ c \in compiledGraph.Tree[b]
           /\ b \in DOMAIN compiledGraph.ReverseTree
           /\ a \in compiledGraph.ReverseTree[b]

\* The four ways one entry of a graph is refused.
UnknownHostGroup ==
    \E i \in 1..Len(config.services) : config.services[i].HostsFrom \notin config.hosts

DuplicateService ==
    \E i, j \in 1..Len(config.services) :
        i # j /\ config.services[i].Name = config.services[j].Name

SelfDependency == \E d \in config.deps : d[1] = d[2]

UndeclaredDependency ==
    \E d \in config.deps : d[1] \notin Declared \/ d[2] \notin Declared

EntryDiagnostics ==
    {"unknown hosts group", "service already present", "depends on itself",
     "unknown service in dependency"}

\* C14: with an unknown host group, a repeated service name, a dependency of a
\* service on itself or a dependency on an undeclared service, RouterDMain
\* never gets to the validation loop, registers no handler, never runs the
\* server, and ends by returning 1 after the diagnostic of an entry.
C14_BadEntryExits ==
    (UnknownHostGroup \/ DuplicateService \/ SelfDependency \/ UndeclaredDependency)
        => /\ pc \in {"services", "deps", "end"}
           /\ graphs = {}
           /\ Graph = EmptyGraph
           /\ phase \in {"startup", "exit1"}
           /\ pc = "end" => phase = "exit1" /\ diag \in EntryDiagnostics

\* Every service was accepted and startup ended on a dependency that names a
\* service the graph does not declare.
C14_Witness ==
    /\ ~UnknownHostGroup
    /\ ~DuplicateService
    /\ ~SelfDependency
    /\ UndeclaredDependency
    /\ phase = "exit1"
    /\ diag = "unknown service in dependency"

\* An entry of routes names a graph that "graphs" does not declare.
UnknownGraphInRoute ==
    \E i \in 1..Len(config.routes) : config.routes[i] # GraphName

\* C15: when an entry of routes names an undeclared graph, the server is never
\* run and startup ends by returning 1, as for every other startup error.
C15_UnknownGraphExits1 ==
    UnknownGraphInRoute
        => /\ phase # "serving"
           /\ pc = "end" => phase = "exit1"

\* The loop at while (!tree.empty()) is being executed.
InLoop == pc \in {"while", "erase"}

\* The loop was left: by its test failing, or by return 1 in its body.
LoopAccepted == config.hasDeps /\ (pc \in {"register", "routes"} \/ graphs # {})

\* C20: the validation loop ends, after at most as many rounds as the graph has
\* services, either with the working tree empty or with the cycle reported and
\* never both; and no tree.at(it2) of a round misses its key.
C20_LoopTotal ==
    /\ [](rounds <= Cardinality(Declared))
    /\ [](pc = "erase" =>
              \A it1 \in noDeps : ~LookupMisses(tree, reverseTree, it1))
    /\ [](~(phase = "threw" /\ diag = "tree.at"))
    /\ [](LoopAccepted => tree = EmptyTree /\ ~CycleReported)
    /\ [](CycleReported => tree # EmptyTree /\ NoDeps(tree) = {} /\ graphs = {})
    /\ (InLoop ~> (LoopAccepted \/ CycleReported))

\* The loop took as many rounds as there are services, the last of them
\* finding a dependent of the service removed in the round before.
C20_Witness ==
    /\ LoopAccepted
    /\ rounds = Cardinality(Declared)
    /\ rounds = MaxServices
    /\ tree = EmptyTree

\* C18: once the request is started, after the first scan and after every
\* handled callback, no service is left pending with all its dependencies
\* replied; with no deps every service is dispatched by the first scan, before
\* any reply.
C18_ScanExhaustive ==
    started =>
        /\ \A s \in Pending : ~(DependsOn(s) \subseteq Replied)
        /\ config.deps = {} => \A s \in Declared : dispatched[s] > 0

\* A reply let one service go out while another still waits for a dependency
\* of its own.
C18_Witness ==
    /\ started
    /\ \E a \in Declared :
           dispatched[a] > 0 /\ DependsOn(a) # {} /\ DependsOn(a) \subseteq Replied
    /\ \E c \in Pending : DependsOn(c) # {}

\* ----------------------------------------------- claims about the host pool
\* The picks, numbered in the order GetHost fetched the cursor, that returned.
Picked == {i \in DOMAIN picks : picks[i] # NoPick}

InCritical == {t \in LockThreads : cb[t] \in {"locked", "read", "recorded", "scanned"}}

\* The services whose callback ran to its end.
CalledBack == {s \in Names : dispatched[s] > 0 /\ s \notin outstanding /\ cb[s] = "none"}

Live == {r \in Slots : requests[r].live}

\* C19: whatever requests were handled, one after another or together, the
\* handler's graph is the graph compiled at startup, and the graph of every
\* request in flight is that graph less the replies of that request alone: a
\* request that has no reply yet has every service, with all its dependencies.
C19_HandlerGraphUnchanged ==
    /\ DOMAIN Graph.Services = Declared
    /\ Graph.Tree = ForwardOf
    /\ Graph.ReverseTree = ReverseOf
    /\ \A r \in Live :
           /\ DOMAIN requests[r].Graph.Services = Declared
           /\ DOMAIN requests[r].Graph.Tree = Declared \ requests[r].replied
           /\ \A s \in DOMAIN requests[r].Graph.Tree :
                  requests[r].Graph.Tree[s] = DependsOn(s) \ requests[r].replied

\* The last request the bound allows started, with every service pending or
\* dispatched and no reply, after an earlier one was answered and while
\* another is in flight with a reply recorded.
C19_Witness ==
    /\ handled = MaxRequests
    /\ \E r, q \in Live :
           /\ requests[r].replied = {}
           /\ requests[q].replied # {}
           /\ \E s \in Declared : DependsOn(s) # {}

====
